---- MODULE Spec2Model ----
(***************************************************************************)
(* A model of src/header.rs of elf2tab: the Tock Binary Format header      *)
(* builder TbfHeader (new, create, the four setters, generate and          *)
(* inject_checksum).                                                       *)
(*                                                                         *)
(* Representation.  TLC's integers are 32-bit signed, so a u32 is the pair *)
(* <<lo, hi>> of its 16-bit halves (value = lo + 65536 * hi); a u16 and a  *)
(* usize are plain integers, a byte is an integer in 0..255, a buffer and  *)
(* a String are sequences of bytes, Option<T> is <<>> (None) or <<v>>      *)
(* (Some(v)).  The structs are #[repr(C)] and the host is little-endian,   *)
(* so util::as_byte_slice yields the fields in declaration order, each     *)
(* little-endian, with no padding (every field is naturally aligned).      *)
(***************************************************************************)
EXTENDS Integers, Sequences, FiniteSets, TLC

VARIABLES
    hdr_base,             \* TbfHeader.hdr_base            : TbfHeaderBase
    hdr_main,             \* TbfHeader.hdr_main            : TbfHeaderMain
    hdr_pkg_name_tlv,     \* TbfHeader.hdr_pkg_name_tlv    : Option<TbfHeaderTlv>
    hdr_wfr,              \* TbfHeader.hdr_wfr             : Vec<TbfHeaderWriteableFlashRegion>
    hdr_fixed_addresses,  \* TbfHeader.hdr_fixed_addresses : Option<TbfHeaderFixedAddresses>
    package_name,         \* TbfHeader.package_name        : String
    package_name_pad,     \* TbfHeader.package_name_pad    : usize
    result,               \* the value the last call returned to the caller
    created,              \* history: the create calls so far, <<[args, len]>>
    wfr_calls             \* history: the set_writeable_flash_region_values
                          \* calls since the last create, <<[offset, size]>>

fields == <<hdr_base, hdr_main, hdr_pkg_name_tlv, hdr_wfr, hdr_fixed_addresses,
            package_name, package_name_pad>>

vars == <<hdr_base, hdr_main, hdr_pkg_name_tlv, hdr_wfr, hdr_fixed_addresses,
          package_name, package_name_pad, result, created, wfr_calls>>

----------------------------------------------------------------------------
(* Bounds of the model.                                                    *)

MaxRegions == 2
MaxNameLen == 5
MaxCreates == 2

\* set_writeable_flash_region_values is called at most once more than there
\* can be slots, so that the call after the last slot is reached.
MaxCalls == MaxRegions + 1

----------------------------------------------------------------------------
(* Machine integers.                                                       *)

U16Modulus == 65536
ByteModulus == 256

U32(lo, hi) == <<lo, hi>>
Zero32 == U32(0, 0)

\* `x as u16` of a usize.
AsU16(x) == x % U16Modulus

\* One bit of a value.
Bit(x, i) == (x \div (2 ^ i)) % 2

\* a ^ b on 4-bit values, tabulated bit by bit.
XorNibble ==
    [a \in 0..15 |-> [b \in 0..15 |->
        ((Bit(a, 0) + Bit(b, 0)) % 2) + 2 * ((Bit(a, 1) + Bit(b, 1)) % 2)
            + 4 * ((Bit(a, 2) + Bit(b, 2)) % 2) + 8 * ((Bit(a, 3) + Bit(b, 3)) % 2)]]

\* a ^ b on 16-bit values, nibble by nibble.
Xor16(a, b) ==
    XorNibble[a % 16][b % 16]
        + 16 * XorNibble[(a \div 16) % 16][(b \div 16) % 16]
        + 256 * XorNibble[(a \div 256) % 16][(b \div 256) % 16]
        + 4096 * XorNibble[a \div 4096][b \div 4096]

\* a ^ b on u32.
Xor32(a, b) == U32(Xor16(a[1], b[1]), Xor16(a[2], b[2]))

\* The in-memory (little-endian) bytes of a u16 and of a u32.
LeBytes16(x) == <<x % ByteModulus, x \div ByteModulus>>
LeBytes32(w) == LeBytes16(w[1]) \o LeBytes16(w[2])

Min(a, b) == IF a < b THEN a ELSE b

----------------------------------------------------------------------------
(* util.rs is not part of the sources at hand; its two arithmetic helpers  *)
(* are modelled from their use and from the format description (the third, *)
(* as_byte_slice, is the struct layouts below).                            *)

\* util::amount_alignment_needed(value, alignment)
amount_alignment_needed(value, alignment) ==
    IF value % alignment = 0 THEN 0 ELSE alignment - (value % alignment)

\* util::do_pad(output, length): `length` zero bytes.
do_pad(length) == [i \in 1..length |-> 0]

----------------------------------------------------------------------------
(* The TLV registry and the struct layouts.                                *)

Main == 1
WriteableFlashRegions == 2
PackageName == 3
PicOption1 == 4
FixedAddresses == 5

\* mem::size_of of the #[repr(C)] structs.
SizeOfTlv == 4
SizeOfBase == 16
SizeOfMain == 20
SizeOfWfr == 12
SizeOfFixed == 12

None == <<>>
Some(v) == <<v>>
is_some(o) == o # <<>>
unwrap(o) == o[1]
unwrap_or(o, d) == IF o # <<>> THEN o[1] ELSE d

\* as_byte_slice(&TbfHeaderTlv)
TlvBytes(t) == LeBytes16(t.tipe) \o LeBytes16(t.length)

\* as_byte_slice(&TbfHeaderBase)
BaseBytes(b) ==
    LeBytes16(b.version) \o LeBytes16(b.header_size) \o LeBytes32(b.total_size)
        \o LeBytes32(b.flags) \o LeBytes32(b.checksum)

\* as_byte_slice(&TbfHeaderMain)
MainBytes(m) ==
    TlvBytes(m.base) \o LeBytes32(m.init_fn_offset) \o LeBytes32(m.protected_size)
        \o LeBytes32(m.minimum_ram_size) \o LeBytes32(m.app_id)

\* as_byte_slice(&TbfHeaderWriteableFlashRegion)
WfrBytes(w) == TlvBytes(w.base) \o LeBytes32(w.offset) \o LeBytes32(w.size)

\* as_byte_slice(&Option<TbfHeaderFixedAddresses>), read only when it is Some:
\* the None niche lives in `tipe`, so Some(v) has the bytes of v.
FixedBytes(f) ==
    TlvBytes(f.base) \o LeBytes32(f.start_process_ram)
        \o LeBytes32(f.start_process_flash)

\* as_byte_slice(&Option<TbfHeaderTlv>): Some(v) has the bytes of v.  generate
\* reads it only when package_name is non-empty, and create stores Some
\* whenever it stores a non-empty name (PkgTlvPresent below), so the bytes of
\* None are never read.
PkgTlvBytes(o) == IF is_some(o) THEN TlvBytes(unwrap(o)) ELSE do_pad(SizeOfTlv)

\* A faulty variant of WfrsBytes: a slot that was never filled is not written.
RECURSIVE WfrsBytesFilledOnly(_)
WfrsBytesFilledOnly(ws) ==
    IF ws = <<>> THEN <<>>
    ELSE (IF Head(ws).size # <<0, 0>> THEN WfrBytes(Head(ws)) ELSE <<>>)
             \o WfrsBytesFilledOnly(Tail(ws))

\* The loop of generate over hdr_wfr: every slot, in order.
RECURSIVE WfrsBytes(_)
WfrsBytes(ws) ==
    IF ws = <<>> THEN <<>> ELSE WfrBytes(Head(ws)) \o WfrsBytes(Tail(ws))

----------------------------------------------------------------------------
(* The Sha3_256 digest (an external crate): the first four bytes of the    *)
(* digest of each name the model uses, as SHA3-256 computes them.          *)

NameText == <<98, 108, 105, 110, 107, 121, 46, 99>>  \* "blinky.c"
NameOf(k) == SubSeq(NameText, 1, k)

\* A name long enough for the header to reach 65536 bytes.
LongNameLen == U16Modulus - SizeOfBase - SizeOfMain - SizeOfTlv
LongName == [i \in 1..LongNameLen |-> 97]

Sha3First4(name) ==
    CASE name = NameOf(0) -> <<167, 255, 198, 248>>
      [] name = NameOf(1) -> <<176, 57, 23, 154>>
      [] name = NameOf(2) -> <<129, 169, 92, 176>>
      [] name = NameOf(3) -> <<151, 31, 129, 32>>
      [] name = NameOf(4) -> <<176, 121, 47, 202>>
      [] name = NameOf(5) -> <<101, 95, 65, 32>>
      [] name = NameOf(6) -> <<124, 245, 74, 58>>
      [] name = LongName  -> <<228, 14, 158, 95>>

\* hash[0] | hash[1] << 8 | hash[2] << 16 | hash[3] << 24
DefaultAppId(name) ==
    LET hash == Sha3First4(name)
    IN  U32(hash[1] + ByteModulus * hash[2], hash[3] + ByteModulus * hash[4])

----------------------------------------------------------------------------
(* inject_checksum and generate.                                           *)

\* The word read at 0-based position pos: `count` bytes, zero-extended.
WordAt(buf, pos, count) ==
    LET c(i) == IF i < count THEN buf[pos + 1 + i] ELSE 0
    IN  U32(c(0) + ByteModulus * c(1), c(2) + ByteModulus * c(3))

\* The loop of inject_checksum: it reads four bytes at a time and folds each
\* word into checksum, until a read is short or empty.  Read k (from 0) starts
\* at byte 4 * k and gets Min(4, Len(buf) - 4 * k) bytes, so the reads are
\* 0 .. Len(buf) \div 4.  The words of reads lo .. hi - 1 are folded here as a
\* balanced tree, not left to right: ^ is associative and the evaluation
\* depth stays logarithmic in the length of the buffer.
RECURSIVE XorWords(_, _, _)
XorWords(buf, lo, hi) ==
    IF hi - lo = 1
    THEN WordAt(buf, 4 * lo, Min(4, Len(buf) - 4 * lo))
    ELSE Xor32(XorWords(buf, lo, (lo + hi) \div 2), XorWords(buf, (lo + hi) \div 2, hi))

\* A faulty variant of ChecksumLoop: the loop stops one word early.
ChecksumLoopSkipsLastWord(buf) == XorWords(buf, 0, Len(buf) \div 4 - 1)

ChecksumLoop(buf) == XorWords(buf, 0, (Len(buf) \div 4) + 1)

\* Cursor::write_all at 0-based position pos (the vector grows if needed).
WriteAt(buf, pos, bytes) ==
    [i \in 1..(IF Len(buf) > pos + Len(bytes) THEN Len(buf) ELSE pos + Len(bytes)) |->
        IF i > pos /\ i <= pos + Len(bytes) THEN bytes[i - pos]
        ELSE IF i <= Len(buf) THEN buf[i] ELSE 0]

ChecksumOffset == 12

inject_checksum(header_buf) ==
    WriteAt(header_buf, ChecksumOffset, LeBytes32(ChecksumLoop(header_buf)))

\* The bytes generate writes before the final padding.
Sections(h) ==
    BaseBytes(h.hdr_base) \o MainBytes(h.hdr_main)
        \o (IF h.package_name # <<>>
            THEN PkgTlvBytes(h.hdr_pkg_name_tlv) \o h.package_name
                     \o do_pad(h.package_name_pad)
            ELSE <<>>)
        \o WfrsBytes(h.hdr_wfr)
        \o (IF is_some(h.hdr_fixed_addresses)
            THEN FixedBytes(unwrap(h.hdr_fixed_addresses))
            ELSE <<>>)

generate(h) ==
    LET body == Sections(h)
        current_length == Len(body)
    IN  inject_checksum(body \o do_pad(amount_alignment_needed(current_length, 4)))

----------------------------------------------------------------------------
(* The header as one record, and the initial state.                        *)

Self ==
    [hdr_base |-> hdr_base, hdr_main |-> hdr_main,
     hdr_pkg_name_tlv |-> hdr_pkg_name_tlv, hdr_wfr |-> hdr_wfr,
     hdr_fixed_addresses |-> hdr_fixed_addresses,
     package_name |-> package_name, package_name_pad |-> package_name_pad]

Unit == [kind |-> "unit"]

\* TbfHeader::new()
Init ==
    /\ hdr_base = [version |-> 2, header_size |-> 0, total_size |-> Zero32,
                   flags |-> Zero32, checksum |-> Zero32]
    /\ hdr_main = [base |-> [tipe |-> Main, length |-> SizeOfMain - SizeOfTlv],
                   init_fn_offset |-> Zero32, protected_size |-> Zero32,
                   minimum_ram_size |-> Zero32, app_id |-> Zero32]
    /\ hdr_pkg_name_tlv = None
    /\ hdr_wfr = <<>>
    /\ hdr_fixed_addresses = None
    /\ package_name = <<>>
    /\ package_name_pad = 0
    /\ result = [kind |-> "new"]
    /\ created = <<>>
    /\ wfr_calls = <<>>

----------------------------------------------------------------------------
(* The operations.                                                         *)

\* header_length as create computes it ahead of time.
HeaderLength(a) ==
    LET l0 == SizeOfBase + SizeOfMain
        l1 == IF a.package_name # <<>>
              THEN l0 + SizeOfTlv + Len(a.package_name)
              ELSE l0
        pad == IF a.package_name # <<>> THEN amount_alignment_needed(l1, 4) ELSE 0
        l2 == l1 + pad + SizeOfWfr * a.writeable_flash_regions
    IN  IF is_some(a.fixed_address_ram) \/ is_some(a.fixed_address_flash)
        THEN l2 + SizeOfFixed
        ELSE l2

\* package_name_pad as create computes it.
NamePad(a) ==
    IF a.package_name # <<>>
    THEN amount_alignment_needed(SizeOfBase + SizeOfMain + SizeOfTlv + Len(a.package_name), 4)
    ELSE 0

EmptyWfr ==
    [base |-> [tipe |-> WriteableFlashRegions, length |-> 8],
     offset |-> Zero32, size |-> Zero32]

\* A faulty variant of NewFixedAddresses: the section is made only when both addresses
\* are given.
NewFixedAddressesBoth(h, a) ==
    IF is_some(a.fixed_address_ram) /\ is_some(a.fixed_address_flash)
    THEN Some([base |-> [tipe |-> FixedAddresses, length |-> 8],
               start_process_ram |-> unwrap(a.fixed_address_ram),
               start_process_flash |-> unwrap(a.fixed_address_flash)])
    ELSE h.hdr_fixed_addresses

\* hdr_fixed_addresses after create(a) on header h.
NewFixedAddresses(h, a) ==
    IF is_some(a.fixed_address_ram) \/ is_some(a.fixed_address_flash)
    THEN Some([base |-> [tipe |-> FixedAddresses, length |-> 8],
               start_process_ram |-> unwrap_or(a.fixed_address_ram, U32(65535, 65535)),
               start_process_flash |-> unwrap_or(a.fixed_address_flash, U32(65535, 65535))])
    ELSE h.hdr_fixed_addresses

\* The header after create(a) on header h.
CreateFields(h, a) ==
    [hdr_base |-> [h.hdr_base EXCEPT !.header_size = AsU16(HeaderLength(a)),
                                     !.flags = U32(1, 0)],
     hdr_main |-> [h.hdr_main EXCEPT
                      !.minimum_ram_size = a.minimum_ram_size,
                      !.app_id = IF is_some(a.app_id) THEN unwrap(a.app_id)
                                 ELSE DefaultAppId(a.package_name)],
     hdr_pkg_name_tlv |->
         IF a.package_name # <<>>
         THEN Some([tipe |-> PackageName, length |-> AsU16(Len(a.package_name))])
         ELSE h.hdr_pkg_name_tlv,
     hdr_wfr |-> h.hdr_wfr \o [i \in 1..a.writeable_flash_regions |-> EmptyWfr],
     hdr_fixed_addresses |-> NewFixedAddresses(h, a),
     package_name |-> a.package_name,
     package_name_pad |-> NamePad(a)]

\* TbfHeader::create
create(a) ==
    LET h == CreateFields(Self, a)
        len == Len(generate(h))
    IN  /\ hdr_base' = h.hdr_base
        /\ hdr_main' = h.hdr_main
        /\ hdr_pkg_name_tlv' = h.hdr_pkg_name_tlv
        /\ hdr_wfr' = h.hdr_wfr
        /\ hdr_fixed_addresses' = h.hdr_fixed_addresses
        /\ package_name' = h.package_name
        /\ package_name_pad' = h.package_name_pad
        /\ result' = [kind |-> "len", len |-> len]
        /\ created' = Append(created, [args |-> a, len |-> len])
        /\ wfr_calls' = <<>>

\* A faulty variant of set_protected_size: the value lands in the neighbouring field.
set_protected_size_wrong_field(protected_size) ==
    /\ hdr_main' = [hdr_main EXCEPT !.minimum_ram_size = protected_size]
    /\ result' = Unit
    /\ UNCHANGED <<hdr_base, hdr_pkg_name_tlv, hdr_wfr, hdr_fixed_addresses,
                   package_name, package_name_pad, created, wfr_calls>>

\* TbfHeader::set_protected_size
set_protected_size(protected_size) ==
    /\ hdr_main' = [hdr_main EXCEPT !.protected_size = protected_size]
    /\ result' = Unit
    /\ UNCHANGED <<hdr_base, hdr_pkg_name_tlv, hdr_wfr, hdr_fixed_addresses,
                   package_name, package_name_pad, created, wfr_calls>>

\* TbfHeader::set_total_size
set_total_size(total_size) ==
    /\ hdr_base' = [hdr_base EXCEPT !.total_size = total_size]
    /\ result' = Unit
    /\ UNCHANGED <<hdr_main, hdr_pkg_name_tlv, hdr_wfr, hdr_fixed_addresses,
                   package_name, package_name_pad, created, wfr_calls>>

\* TbfHeader::set_init_fn_offset
set_init_fn_offset(init_fn_offset) ==
    /\ hdr_main' = [hdr_main EXCEPT !.init_fn_offset = init_fn_offset]
    /\ result' = Unit
    /\ UNCHANGED <<hdr_base, hdr_pkg_name_tlv, hdr_wfr, hdr_fixed_addresses,
                   package_name, package_name_pad, created, wfr_calls>>

\* The index of the first slot whose size is zero, 0 when there is none.
FirstUnused(wfrs) ==
    IF \E i \in 1..Len(wfrs) : wfrs[i].size = Zero32
    THEN CHOOSE i \in 1..Len(wfrs) :
             /\ wfrs[i].size = Zero32
             /\ \A j \in 1..(i - 1) : wfrs[j].size # Zero32
    ELSE 0

\* A faulty variant of FillFirstUnused: with no unused slot left, a new one is pushed.
FillOrPush(wfrs, offset, size) ==
    LET i == FirstUnused(wfrs)
    IN  IF i = 0
        THEN Append(wfrs, [base |-> [tipe |-> WriteableFlashRegions, length |-> 8],
                           offset |-> offset, size |-> size])
        ELSE [wfrs EXCEPT ![i] = [@ EXCEPT !.offset = offset, !.size = size]]

\* A faulty variant of FillFirstUnused: the loop has no break, every unused slot is
\* written.
FillEveryUnused(wfrs, offset, size) ==
    [i \in 1..Len(wfrs) |->
        IF wfrs[i].size = Zero32
        THEN [wfrs[i] EXCEPT !.offset = offset, !.size = size]
        ELSE wfrs[i]]

\* A faulty variant of FillFirstUnused: the slots are scanned from the last one.
FillLastUnused(wfrs, offset, size) ==
    IF \E i \in 1..Len(wfrs) : wfrs[i].size = Zero32
    THEN LET i == CHOOSE k \in 1..Len(wfrs) :
                      /\ wfrs[k].size = Zero32
                      /\ \A j \in (k + 1)..Len(wfrs) : wfrs[j].size # Zero32
         IN  [wfrs EXCEPT ![i] = [@ EXCEPT !.offset = offset, !.size = size]]
    ELSE wfrs

\* The loop of set_writeable_flash_region_values.
FillFirstUnused(wfrs, offset, size) ==
    LET i == FirstUnused(wfrs)
    IN  IF i = 0 THEN wfrs
        ELSE [wfrs EXCEPT ![i] = [@ EXCEPT !.offset = offset, !.size = size]]

\* TbfHeader::set_writeable_flash_region_values
set_writeable_flash_region_values(offset, size) ==
    /\ hdr_wfr' = FillFirstUnused(hdr_wfr, offset, size)
    /\ result' = Unit
    /\ wfr_calls' = Append(wfr_calls, [offset |-> offset, size |-> size])
    /\ UNCHANGED <<hdr_base, hdr_main, hdr_pkg_name_tlv, hdr_fixed_addresses,
                   package_name, package_name_pad, created>>

\* A faulty variant of Generate: the checksum is also kept in hdr_base.
GenerateStoresChecksum ==
    /\ result' = [kind |-> "buf", buf |-> generate(Self)]
    /\ hdr_base' = [hdr_base EXCEPT
                       !.checksum = WordAt(generate(Self), ChecksumOffset, 4)]
    /\ UNCHANGED <<hdr_main, hdr_pkg_name_tlv, hdr_wfr, hdr_fixed_addresses,
                   package_name, package_name_pad, created, wfr_calls>>

\* TbfHeader::generate (&self: it returns the buffer and writes no field)
Generate ==
    /\ result' = [kind |-> "buf", buf |-> generate(Self)]
    /\ UNCHANGED <<hdr_base, hdr_main, hdr_pkg_name_tlv, hdr_wfr, hdr_fixed_addresses,
                   package_name, package_name_pad, created, wfr_calls>>

----------------------------------------------------------------------------
(* The callers' inputs.                                                    *)

MinimumRamSize == U32(2048, 0)
AppId == U32(4660, 0)            \* 0x1234
FixedRam == U32(0, 8192)         \* 0x20000000
FixedFlash == U32(0, 4)          \* 0x00040000
ProtectedSize == U32(64, 0)
TotalSize == U32(8192, 1)        \* 0x00012000
InitFnOffset == U32(41, 0)
RegionSize == U32(512, 0)        \* 0x200

\* The k-th call of a run passes offset k * 0x1000, so calls are told apart.
RegionOffset(k) == U32(4096 * k, 0)

Args(ram, n, name, far, faf, id) ==
    [minimum_ram_size |-> ram, writeable_flash_regions |-> n, package_name |-> name,
     fixed_address_ram |-> far, fixed_address_flash |-> faf, app_id |-> id]

CreateArgs ==
    { Args(MinimumRamSize, n, NameOf(k), far, faf, id) :
        n \in 0..MaxRegions, k \in 0..MaxNameLen,
        far \in {None, Some(FixedRam)}, faf \in {None, Some(FixedFlash)},
        id \in {None, Some(AppId)} }

\* The setters, set_writeable_flash_region_values at most `calls` times
\* after a create.
Setters(calls) ==
    \/ set_protected_size(ProtectedSize)
    \/ set_total_size(TotalSize)
    \/ set_init_fn_offset(InitFnOffset)
    \/ /\ Len(wfr_calls) < calls
       /\ \E size \in {Zero32, RegionSize} :
              set_writeable_flash_region_values(RegionOffset(Len(wfr_calls) + 1), size)

\* The documented protocol: new, create once, then setters and generate.
Next ==
    \/ /\ created = <<>>
       /\ \E a \in CreateArgs : create(a)
    \/ Setters(MaxCalls)
    \/ Generate

Spec == Init /\ [][Next]_vars

\* The interface as the type allows it: create may be called again.
RecreateArgs ==
    { Args(MinimumRamSize, n, NameOf(k), far, None, Some(AppId)) :
        n \in 0..1, k \in 0..1, far \in {None, Some(FixedRam)} }

NextRecreate ==
    \/ /\ Len(created) < MaxCreates
       /\ \E a \in RecreateArgs : create(a)
    \/ Setters(1)
    \/ Generate

SpecRecreate == Init /\ [][NextRecreate]_vars

\* The protocol, with a package name that takes the header to 65536 bytes.
WideArgs ==
    { Args(MinimumRamSize, 0, name, None, None, Some(AppId)) :
        name \in {NameOf(0), NameOf(MaxNameLen), LongName} }

NextWide ==
    \/ /\ created = <<>>
       /\ \E a \in WideArgs : create(a)
    \/ Setters(1)
    \/ Generate

SpecWide == Init /\ [][NextWide]_vars

----------------------------------------------------------------------------
(* Reading an encoded buffer back, for the properties below.               *)

Le16At(buf, pos) == buf[pos + 1] + ByteModulus * buf[pos + 2]
Le32At(buf, pos) == U32(Le16At(buf, pos), Le16At(buf, pos + 2))

RoundUp4(n) == ((n + 3) \div 4) * 4

\* The offsets of the TLVs of buf from pos on: each is a 4-byte prefix
\* {type, length} and `length` payload bytes, padded to a 4-byte boundary.
RECURSIVE TlvOffsets(_, _)
TlvOffsets(buf, pos) ==
    IF pos + 4 > Len(buf) THEN <<>>
    ELSE <<pos>> \o TlvOffsets(buf, pos + 4 + RoundUp4(Le16At(buf, pos + 2)))

Tlvs(buf) == TlvOffsets(buf, SizeOfBase)
TlvsOfType(buf, t) == SelectSeq(Tlvs(buf), LAMBDA p : Le16At(buf, p) = t)

\* The XOR of the first n little-endian words of buf, left to right.
RECURSIVE FoldLE(_, _)
FoldLE(buf, n) ==
    IF n = 0 THEN Zero32 ELSE Xor32(FoldLE(buf, n - 1), Le32At(buf, 4 * (n - 1)))

\* buf with its checksum field (bytes 12..15) zeroed.
ChecksumZeroed(buf) == [i \in 1..Len(buf) |-> IF i \in 13..16 THEN 0 ELSE buf[i]]

\* The header in the state a step leads to.
SelfNext ==
    [hdr_base |-> hdr_base', hdr_main |-> hdr_main',
     hdr_pkg_name_tlv |-> hdr_pkg_name_tlv', hdr_wfr |-> hdr_wfr',
     hdr_fixed_addresses |-> hdr_fixed_addresses',
     package_name |-> package_name', package_name_pad |-> package_name_pad']

Returned == result.kind = "buf"
Created == created # <<>>
LastCreate == created[Len(created)]

\* create stores Some in hdr_pkg_name_tlv whenever it stores a non-empty name,
\* so generate never reads the bytes of a None.
PkgTlvPresent == package_name # <<>> => is_some(hdr_pkg_name_tlv)

----------------------------------------------------------------------------
(* C1.  The value create returns is a multiple of 4 and is the length of   *)
(* the buffer every later generate call returns, whatever setters were     *)
(* called in between.                                                      *)

C1_CreateLengthIsGenerateLength ==
    Created =>
        /\ LastCreate.len % 4 = 0
        /\ Returned => Len(result.buf) = LastCreate.len

C1_Witness ==
    /\ Created /\ Returned
    /\ LastCreate.args.package_name = NameOf(MaxNameLen)
    /\ LastCreate.args.writeable_flash_regions = MaxRegions
    /\ Len(wfr_calls) = MaxCalls
    /\ hdr_base.total_size = TotalSize
    /\ hdr_main.protected_size = ProtectedSize
    /\ hdr_main.init_fn_offset = InitFnOffset

(* C2.  Every buffer generate returns XOR-folds to 0 as little-endian      *)
(* 32-bit words; the word at bytes 12..15 is the fold of the buffer with   *)
(* that field zeroed, and the stored checksum field is always 0.           *)

C2_BufferFoldsToZero ==
    /\ hdr_base.checksum = Zero32
    /\ Returned =>
          /\ Len(result.buf) % 4 = 0
          /\ FoldLE(result.buf, Len(result.buf) \div 4) = Zero32
          /\ Le32At(result.buf, ChecksumOffset)
                 = FoldLE(ChecksumZeroed(result.buf), Len(result.buf) \div 4)

C2_Witness ==
    /\ Created /\ Returned
    /\ hdr_base.total_size = TotalSize
    /\ Le32At(result.buf, ChecksumOffset)[2] # 0
    /\ Le32At(result.buf, ChecksumOffset)[1] # 0

(* C3.  generate writes no field of the header, and a generate call right  *)
(* after a generate call returns the same bytes; so does any further call  *)
(* made in the state generate leaves.                                      *)

C3_GenerateReadOnlyIdempotent ==
    [][result'.kind = "buf" =>
          /\ fields' = fields
          /\ generate(SelfNext) = result'.buf
          /\ (result.kind = "buf" => result'.buf = result.buf)]_vars

C3_Witness ==
    /\ Created /\ Returned
    /\ hdr_main.init_fn_offset = InitFnOffset
    /\ result.buf = generate(Self)

(* C4.  Once create has returned, no setter and no generate call changes   *)
(* the layout (name TLV presence, slot count, fixed-addresses presence) or *)
(* header_size, flags, minimum_ram_size, app_id; flags has bit 0 set; and  *)
(* every buffer holds exactly the N requested flash-region TLVs.           *)

Layout ==
    <<is_some(hdr_pkg_name_tlv), package_name, package_name_pad, Len(hdr_wfr),
      is_some(hdr_fixed_addresses), hdr_base.header_size, hdr_base.flags,
      hdr_main.minimum_ram_size, hdr_main.app_id>>

C4_SettersKeepLayout ==
    [][(Created /\ created' = created) =>
          /\ Layout' = Layout
          /\ hdr_base.flags[1] % 2 = 1
          /\ hdr_main.minimum_ram_size = LastCreate.args.minimum_ram_size
          /\ Len(hdr_wfr) = LastCreate.args.writeable_flash_regions
          /\ (result'.kind = "buf" =>
                 Len(TlvsOfType(result'.buf, WriteableFlashRegions))
                     = LastCreate.args.writeable_flash_regions)]_vars

C4_Witness ==
    /\ Created /\ Returned
    /\ LastCreate.args.writeable_flash_regions = MaxRegions
    /\ Len(TlvsOfType(result.buf, WriteableFlashRegions)) = MaxRegions
    /\ hdr_wfr[1].size # Zero32
    /\ hdr_wfr[MaxRegions].size = Zero32
    /\ hdr_main.protected_size = ProtectedSize

(* C5.  set_writeable_flash_region_values(offset, size) writes the first   *)
(* slot whose size is zero and nothing else; with no such slot it changes  *)
(* no field and the next generate output is the same as before the call.   *)

FirstZeroSized(wfrs) == { i \in 1..Len(wfrs) : wfrs[i].size = Zero32 }
Least(S) == CHOOSE i \in S : \A j \in S : i <= j
IsRegionCall == Len(wfr_calls') = Len(wfr_calls) + 1

C5_FirstUnusedSlotOrNothing ==
    [][IsRegionCall =>
          LET call == wfr_calls'[Len(wfr_calls')]
              free == FirstZeroSized(hdr_wfr)
          IN  /\ <<hdr_base, hdr_main, hdr_pkg_name_tlv, hdr_fixed_addresses,
                   package_name, package_name_pad>>'
                     = <<hdr_base, hdr_main, hdr_pkg_name_tlv, hdr_fixed_addresses,
                         package_name, package_name_pad>>
              /\ Len(hdr_wfr') = Len(hdr_wfr)
              /\ free # {} =>
                    \A i \in 1..Len(hdr_wfr) :
                        IF i = Least(free)
                        THEN /\ hdr_wfr'[i].offset = call.offset
                             /\ hdr_wfr'[i].size = call.size
                             /\ hdr_wfr'[i].base = hdr_wfr[i].base
                        ELSE hdr_wfr'[i] = hdr_wfr[i]
              /\ free = {} =>
                    /\ fields' = fields
                    /\ generate(SelfNext) = generate(Self)]_vars

C5_Witness ==
    /\ Created
    /\ Len(hdr_wfr) = MaxRegions
    /\ Len(wfr_calls) = MaxCalls
    /\ \A i \in 1..MaxCalls : wfr_calls[i].size # Zero32
    /\ \A i \in 1..MaxRegions : hdr_wfr[i].size # Zero32

(* C6.  The length create returns is 16 + 20 + (4 + name length + padding  *)
(* to the next multiple of 4, for a non-empty name) + 12 * N + (12 if a    *)
(* fixed address was given): 36 with nothing optional, 48 for "blink".     *)

ExpectedLength(a) ==
    LET n == Len(a.package_name)
    IN  16 + 20
        + (IF n > 0 THEN 4 + n + ((4 - ((16 + 20 + 4 + n) % 4)) % 4) ELSE 0)
        + 12 * a.writeable_flash_regions
        + (IF a.fixed_address_ram # None \/ a.fixed_address_flash # None THEN 12 ELSE 0)

Plain(a) ==
    /\ a.writeable_flash_regions = 0
    /\ a.fixed_address_ram = None
    /\ a.fixed_address_flash = None

C6_LengthFormula ==
    Created =>
        LET a == LastCreate.args
        IN  /\ LastCreate.len = ExpectedLength(a)
            /\ (Plain(a) /\ a.package_name = <<>>) => LastCreate.len = 36
            /\ (Plain(a) /\ a.package_name = <<98, 108, 105, 110, 107>>)
                   => LastCreate.len = 48

C6_Witness ==
    /\ result.kind = "len"
    /\ result.len = 48 + 12 * MaxRegions + 12
    /\ LastCreate.args.package_name = <<98, 108, 105, 110, 107>>

(* C7.  The buffer has a Fixed Addresses TLV (type 5, length 8), as its    *)
(* last section, exactly when create was given a fixed address; it holds   *)
(* the given values, 0xFFFFFFFF for the one not given, whatever setters    *)
(* ran.                                                                    *)

Sentinel == U32(65535, 65535)

C7_FixedAddressesTlv ==
    (Created /\ Returned) =>
        LET a == LastCreate.args
            buf == result.buf
            found == TlvsOfType(buf, FixedAddresses)
            asked == a.fixed_address_ram # None \/ a.fixed_address_flash # None
        IN  /\ (found # <<>>) <=> asked
            /\ asked =>
                  /\ Len(found) = 1
                  /\ found[1] = Tlvs(buf)[Len(Tlvs(buf))]
                  /\ found[1] + SizeOfFixed = Len(buf)
                  /\ Le16At(buf, found[1] + 2) = 8
                  /\ Le32At(buf, found[1] + 4)
                         = (IF a.fixed_address_ram # None
                            THEN a.fixed_address_ram[1] ELSE Sentinel)
                  /\ Le32At(buf, found[1] + 8)
                         = (IF a.fixed_address_flash # None
                            THEN a.fixed_address_flash[1] ELSE Sentinel)

C7_Witness ==
    /\ Created /\ Returned
    /\ LastCreate.args.fixed_address_ram = Some(FixedRam)
    /\ LastCreate.args.fixed_address_flash = None
    /\ Le32At(result.buf, Len(result.buf) - 4) = Sentinel
    /\ Le32At(result.buf, Len(result.buf) - 8) = FixedRam
    /\ wfr_calls # <<>>
    /\ hdr_base.total_size = TotalSize

(* C8.  In every buffer generate returns after one create, the header_size *)
(* field (bytes 2..3) is a multiple of 4 and is the length of the buffer.  *)

C8_HeaderSizeIsLength ==
    (Created /\ Returned) =>
        /\ Le16At(result.buf, 2) % 4 = 0
        /\ Le16At(result.buf, 2) = Len(result.buf)

(* C9.  As claimed: after k calls of set_writeable_flash_region_values     *)
(* with any arguments, flash-region TLV i carries call i's values for      *)
(* i <= min(k, N), and the later TLVs carry zeros.                         *)

RegionTlvIs(buf, i, offset, size) ==
    LET p == TlvsOfType(buf, WriteableFlashRegions)[i]
    IN  Le32At(buf, p + 4) = offset /\ Le32At(buf, p + 8) = size

SlotsFollowCalls ==
    LET n == LastCreate.args.writeable_flash_regions
        k == Len(wfr_calls)
    IN  /\ Len(TlvsOfType(result.buf, WriteableFlashRegions)) = n
        /\ \A i \in 1..n :
              IF i <= k
              THEN RegionTlvIs(result.buf, i, wfr_calls[i].offset, wfr_calls[i].size)
              ELSE RegionTlvIs(result.buf, i, Zero32, Zero32)

C9_AnyArguments == (Created /\ Returned) => SlotsFollowCalls

(* C9, amended.  When every call passes a non-zero size, flash-region TLV  *)
(* i carries call i's values for i <= min(k, N), the later TLVs carry      *)
(* zeros, and a call after the N-th leaves the encoded buffer unchanged.   *)

NonZeroSizes(calls) == \A i \in 1..Len(calls) : calls[i].size # Zero32

C9_NonZeroSizes ==
    [][/\ (created' # <<>> /\ result'.kind = "buf" /\ NonZeroSizes(wfr_calls'))
              => SlotsFollowCalls'
       /\ (Created /\ IsRegionCall /\ NonZeroSizes(wfr_calls)
               /\ Len(wfr_calls) >= LastCreate.args.writeable_flash_regions)
              => generate(SelfNext) = generate(Self)]_vars

C9_Witness ==
    /\ Created /\ Returned
    /\ LastCreate.args.writeable_flash_regions = MaxRegions
    /\ Len(wfr_calls) = MaxCalls
    /\ NonZeroSizes(wfr_calls)
    /\ RegionTlvIs(result.buf, MaxRegions, RegionOffset(MaxRegions), RegionSize)

(* C10.  As claimed: once create has completed, no later operation, a      *)
(* further create included, decides the layout again.                      *)

Planned ==
    <<Len(hdr_wfr), package_name # <<>>, is_some(hdr_fixed_addresses),
      hdr_base.header_size>>

C10_PlannedOnce == [][Created => Planned' = Planned]_vars

====
